---- MODULE Spec2Model ----
(***************************************************************************)
(* StudyMate (src/App.tsx): the App component as a state machine.          *)
(*                                                                         *)
(* The variables are the component's React state (useState, lines 85-94),  *)
(* the closure state of its two effects (lines 99-202), the client's view  *)
(* of the Firestore collection, the speech recogniser, and the             *)
(* handleGenerate invocations that are suspended at an await.              *)
(* Every action is one handler, callback or continuation, run to its next  *)
(* await: React applies the state updates of one such run in one render.   *)
(***************************************************************************)
EXTENDS Integers, Sequences, FiniteSets, TLC

VARIABLES
    lectureText,        \* line 85: the transcript buffer, a sequence of characters
    isRecording,        \* line 86
    interimTranscript,  \* line 87
    isLoading,          \* line 88
    error,              \* line 89: NULL or a message
    activeTab,          \* line 90
    lectures,           \* line 91: the list, a sequence of Lecture records
    selectedLecture,    \* line 92: a Lecture record or NoLecture
    userId,             \* line 93: NULL or an identifier
    mockMode,           \* line 94: TRUE in fallback mode
    config,             \* window.__firebase_config (line 114): "absent" or "present"
    setupPc,            \* where setupFirebase (lines 111-159) stands
    unsubscribe,        \* line 101: the closure variable, "noop" or "listener"
    listening,          \* whether the onSnapshot listener of line 140 is live
    collection,         \* the client's view of the user's lectures collection, newest first
    snapDirty,          \* a snapshot of the collection is due to the listener
    pending,            \* handleGenerate invocations suspended at an await
    now,                \* Date.now() (line 269), also numbering the store-assigned ids
    hasSpeech,          \* window.SpeechRecognition present (line 170)
    recActive,          \* the recogniser is started and has not fired onend
    mounted             \* the component is mounted (the effects' cleanups have not run)

vars == <<lectureText, isRecording, interimTranscript, isLoading, error, activeTab,
          lectures, selectedLecture, userId, mockMode, config, setupPc, unsubscribe,
          listening, collection, snapDirty, pending, now, hasSpeech, recActive, mounted>>

uiVars == <<lectureText, isRecording, interimTranscript, isLoading, error, activeTab>>
listVars == <<lectures, selectedLecture>>
setupVars == <<userId, mockMode, config, setupPc, unsubscribe, listening>>
storeVars == <<collection, snapDirty>>
speechVars == <<hasSpeech, recActive>>

-----------------------------------------------------------------------------
(* Bounds of the model *)

\* Records created per session: the generation service answers with a
\* parseable response at most this many times.
MaxRecords == 1
\* handleGenerate invocations suspended at the same time.
MaxInflight == 2

-----------------------------------------------------------------------------
(* Values *)

\* JavaScript null, for the string-valued state (error, userId, summary).
NULL == "null"
\* JavaScript null, for the object-valued state (selectedLecture, flashcards).
NoLecture == [null |-> TRUE]

\* An array value (flashcards), as opposed to NoLecture-like null.
Arr(s) == [items |-> s]

\* Line 261: the length of the title's prefix.
TitleLen == 40
\* Date.now() when the session starts: any value above 1, the sample's number.
StartTime == 2

Min(a, b) == IF a <= b THEN a ELSE b

\* A transcript longer than TitleLen, whose tail differs from its head.
LongText == [i \in 1..(TitleLen + 2) |-> IF i <= TitleLen THEN "x" ELSE "y"]

\* What the user may type or paste into the textarea (line 339).
TypedTexts == {<<" ">>, LongText}

\* Finalised and tentative segments the recogniser may report: the lecture
\* as it would be typed, and a hypothesis.
FinalSegments == {<<>>, LongText}
InterimSegments == {<<>>, <<"h">>}
\* The buffers a finalised segment is appended to.
SpeechBases == {<<>>}

\* String.prototype.trim() yields "" exactly when every character is white space.
Blank(t) == \A i \in 1..Len(t) : t[i] = " "

\* Line 261: lectureText.substring(0, 40) + '...'
Title(t) == SubSeq(t, 1, Min(Len(t), TitleLen)) \o <<".", ".", ".">>

Tabs == {"input", "notes", "flashcards", "history"}

\* Lines 42-54. Texts are sequences of characters, here abridged.
MOCK_LECTURES ==
    << [id |-> <<"mock", 1>>,
        title |-> <<"S", "a", "m", "p", "l", "e">>,
        summary |-> "sample summary",
        flashcards |-> Arr(<<[term |-> "Machine Learning", definition |-> "d1"],
                             [term |-> "Neural Network", definition |-> "d2"]>>),
        timestamp |-> "resolved",
        originalText |-> <<"s", "a", "m", "p", "l", "e">>] >>

\* A document already in the user's collection when the session starts.
StoredDoc ==
    [id |-> <<"doc", 0>>,
     title |-> <<"o", ".", ".", ".">>,
     summary |-> "old summary",
     flashcards |-> Arr(<<[term |-> "T0", definition |-> "D0"]>>),
     timestamp |-> "resolved",
     originalText |-> <<"o">>]

InitialCollections == {<<>>, <<StoredDoc>>}

\* The service's response text, by what JSON.parse (line 258) makes of it:
\* an object of the requested shape, an object whose flashcard has no term,
\* or a throw.
Responses == {"valid", "noterm", "garbage"}
Parses(resp) == resp # "garbage"
ParsedSummary(resp) == "generated summary"
\* Line 263: result.flashcards, taken as it is parsed.
ParsedFlashcards(resp) ==
    IF resp = "noterm"
    THEN Arr(<<[definition |-> "D"]>>)
    ELSE Arr(<<[term |-> "Neuron", definition |-> "D"]>>)

Ids(list) == {list[i].id : i \in 1..Len(list)}

Remove(list, i) == SubSeq(list, 1, i - 1) \o SubSeq(list, i + 1, Len(list))

-----------------------------------------------------------------------------
Init ==
    /\ lectureText = <<>>
    /\ isRecording = FALSE
    /\ interimTranscript = <<>>
    /\ isLoading = FALSE
    /\ error = NULL
    /\ activeTab = "input"
    /\ lectures = <<>>
    /\ selectedLecture = NoLecture
    /\ userId = NULL
    /\ mockMode = FALSE
    /\ config \in {"absent", "present"}
    /\ setupPc = "start"
    /\ unsubscribe = "noop"
    /\ listening = FALSE
    /\ collection \in (IF config = "present" THEN InitialCollections ELSE {<<>>})
    /\ snapDirty = FALSE
    /\ pending = <<>>
    /\ now = StartTime
    /\ hasSpeech \in BOOLEAN
    /\ recActive = FALSE
    /\ mounted = TRUE

-----------------------------------------------------------------------------
(* The Firebase and auth effect, lines 99-166 *)

\* setupMockMode without line 108: the selection is left as it was.
setupMockModeKeepsSelection ==
    /\ mockMode' = TRUE
    /\ userId' = "MOCK_USER_ID"
    /\ lectures' = MOCK_LECTURES
    /\ selectedLecture' = selectedLecture

\* Lines 103-109.
setupMockMode ==
    /\ mockMode' = TRUE
    /\ userId' = "MOCK_USER_ID"
    /\ lectures' = MOCK_LECTURES
    /\ selectedLecture' = IF Len(MOCK_LECTURES) > 0 THEN MOCK_LECTURES[1] ELSE NoLecture

\* Lines 111-130: setupFirebase from its call (line 161) to its first await.
\* React runs the effect after the first render, before any user event.
SetupStart ==
    /\ setupPc = "start"
    /\ mounted
    /\ \/ /\ config = "absent"                  \* lines 114-117
          /\ setupMockMode
          /\ setupPc' = "done"
       \/ /\ config = "present"                 \* lines 120-130: awaiting sign-in
          /\ setupPc' = "signingIn"
          /\ UNCHANGED <<mockMode, userId, lectures, selectedLecture>>
       \/ /\ config = "present"                 \* lines 120-124 throw: lines 155-158
          /\ setupMockMode
          /\ setupPc' = "done"
    /\ UNCHANGED <<uiVars, config, unsubscribe, listening, storeVars, pending, now,
                   speechVars, mounted>>

\* Lines 132-153: the continuation of setupFirebase after sign-in resolved
\* with a current user. It runs whether or not the component is still
\* mounted; after an unmount only its subscription takes effect.
AuthSignedIn ==
    /\ setupPc = "signingIn"
    /\ userId' = IF mounted THEN "uid" ELSE userId          \* line 134
    /\ mockMode' = IF mounted THEN FALSE ELSE mockMode      \* line 135
    /\ unsubscribe' = "listener"                            \* line 140
    /\ listening' = TRUE
    /\ snapDirty' = TRUE                        \* the listener's first snapshot
    /\ setupPc' = "subscribed"
    /\ UNCHANGED <<uiVars, listVars, config, collection, pending, now, speechVars, mounted>>

\* Lines 127-133 and 155-158: sign-in rejected, or resolved without a current
\* user (line 133 throws), or lines 137-140 throw: the catch runs setupMockMode.
AuthFailed ==
    /\ setupPc = "signingIn"
    /\ IF mounted THEN setupMockMode
                  ELSE UNCHANGED <<mockMode, userId, lectures, selectedLecture>>
    /\ setupPc' = "done"
    /\ UNCHANGED <<uiVars, config, unsubscribe, listening, storeVars, pending, now,
                   speechVars, mounted>>

\* The updater without its first branch: the newest record is always selected.
ReconcileNewest(currentSelected, lecturesData) ==
    IF Len(lecturesData) > 0 THEN lecturesData[1] ELSE NoLecture

\* The updater without the membership test of line 145.
ReconcileKeep(currentSelected, lecturesData) ==
    IF currentSelected # NoLecture
    THEN currentSelected
    ELSE IF Len(lecturesData) > 0 THEN lecturesData[1] ELSE NoLecture

\* Lines 144-149: the updater passed to setSelectedLecture.
Reconcile(currentSelected, lecturesData) ==
    IF currentSelected # NoLecture /\ currentSelected.id \in Ids(lecturesData)
    THEN currentSelected
    ELSE IF Len(lecturesData) > 0 THEN lecturesData[1] ELSE NoLecture

\* Lines 140-149: the listener's snapshot callback.
OnSnapshot ==
    /\ listening
    /\ snapDirty
    /\ snapDirty' = FALSE
    /\ IF mounted
       THEN /\ lectures' = collection                                     \* lines 141-142
            /\ selectedLecture' = Reconcile(selectedLecture, collection)  \* lines 144-149
       ELSE UNCHANGED <<lectures, selectedLecture>>
    /\ UNCHANGED <<uiVars, setupVars, collection, pending, now, speechVars, mounted>>

\* Lines 150-153: the listener's error callback. Firestore ends a listener
\* that reports an error: no snapshot follows it.
OnSnapshotError ==
    /\ listening
    /\ listening' = FALSE
    /\ snapDirty' = FALSE
    /\ IF mounted THEN setupMockMode
                  ELSE UNCHANGED <<mockMode, userId, lectures, selectedLecture>>
    /\ setupPc' = "done"
    /\ UNCHANGED <<uiVars, config, unsubscribe, collection, pending, now, speechVars, mounted>>

\* The document store deletes an acknowledged document (from outside this client).
ExternalDelete ==
    /\ listening
    /\ \E i \in 1..Len(collection) :
          /\ collection[i].timestamp = "resolved"
          /\ collection' = Remove(collection, i)
    /\ snapDirty' = TRUE
    /\ UNCHANGED <<uiVars, listVars, setupVars, pending, now, speechVars, mounted>>

\* Lines 163-165 and 199-201: the effects' cleanups, on unmount. The first
\* calls whatever the closure variable of line 101 holds at that moment; the
\* second stops the recogniser, which then fires onend. React discards the
\* component's state and ignores the updates a continuation makes after the
\* unmount, so the state is put back to its initial values and the suspended
\* handleGenerate invocations are followed no further.
Teardown ==
    /\ mounted
    /\ setupPc # "start"
    /\ mounted' = FALSE
    /\ listening' = IF unsubscribe = "listener" THEN FALSE ELSE listening
    /\ snapDirty' = FALSE
    /\ lectureText' = <<>>
    /\ isRecording' = FALSE
    /\ interimTranscript' = <<>>
    /\ isLoading' = FALSE
    /\ error' = NULL
    /\ activeTab' = "input"
    /\ lectures' = <<>>
    /\ selectedLecture' = NoLecture
    /\ userId' = NULL
    /\ mockMode' = FALSE
    /\ pending' = <<>>
    /\ recActive' = FALSE
    /\ UNCHANGED <<config, setupPc, unsubscribe, collection, now, hasSpeech>>

-----------------------------------------------------------------------------
(* The view's handlers. The view exists while the component is mounted and  *)
(* takes user events once the effects of the first render have run.         *)

Interactive == mounted /\ setupPc # "start"

\* Line 318: a tab button.
SetActiveTab(tab) ==
    /\ Interactive
    /\ activeTab' = tab
    /\ UNCHANGED <<lectureText, isRecording, interimTranscript, isLoading, error,
                   listVars, setupVars, storeVars, pending, now, speechVars, mounted>>

\* Lines 335-340: the textarea, rendered on the input tab (line 333).
ChangeText(t) ==
    /\ Interactive
    /\ activeTab = "input"
    /\ lectureText' = t
    /\ UNCHANGED <<isRecording, interimTranscript, isLoading, error, activeTab,
                   listVars, setupVars, storeVars, pending, now, speechVars, mounted>>

\* Lines 296-299, from a history entry (lines 395-403, rendered on the history tab).
handleSelectLecture(lecture) ==
    /\ selectedLecture' = lecture
    /\ activeTab' = "notes"

SelectLecture ==
    /\ Interactive
    /\ activeTab = "history"
    /\ \E i \in 1..Len(lectures) : handleSelectLecture(lectures[i])
    /\ UNCHANGED <<lectureText, isRecording, interimTranscript, isLoading, error,
                   lectures, setupVars, storeVars, pending, now, speechVars, mounted>>

-----------------------------------------------------------------------------
(* Speech capture, lines 169-214 *)

\* Lines 204-214. recognitionRef.current is null without the API (line 171),
\* and ?.stop() / ?.start() then do nothing. start() on a recogniser that has
\* not yet fired onend throws InvalidStateError: line 212 is not reached.
handleToggleRecording ==
    IF isRecording
    THEN /\ isRecording' = FALSE                            \* lines 206-207
         /\ UNCHANGED <<lectureText, interimTranscript, recActive>>
    ELSE /\ lectureText' = <<>>                             \* line 209
         /\ interimTranscript' = <<>>                       \* line 210
         /\ IF hasSpeech /\ recActive
            THEN UNCHANGED <<isRecording, recActive>>       \* line 211 throws
            ELSE /\ recActive' = hasSpeech                  \* line 211
                 /\ isRecording' = TRUE                     \* line 212

\* Lines 343-349: the capture button, rendered on the input tab.
ToggleRecording ==
    /\ Interactive
    /\ activeTab = "input"
    /\ handleToggleRecording
    /\ UNCHANGED <<isLoading, error, activeTab, listVars, setupVars, storeVars,
                   pending, now, hasSpeech, mounted>>

\* Line 188 written as setLectureText(lectureText + finalTranscript): the
\* effect's closure holds the lectureText of the first render, ''.
onresultStaleClosure(finalTranscript, interim) ==
    /\ lectureText' = <<>> \o finalTranscript
    /\ interimTranscript' = interim

\* Lines 178-190: recognition.onresult, with the finalised and the tentative
\* text of the event's results (lines 179-187).
onresult(finalTranscript, interim) ==
    /\ lectureText' = lectureText \o finalTranscript        \* line 188
    /\ interimTranscript' = interim                         \* line 189

\* The recogniser reports results while it is started.
RecognitionResult ==
    /\ recActive
    /\ \E finalTranscript \in FinalSegments, interim \in InterimSegments :
          /\ finalTranscript = <<>> \/ lectureText \in SpeechBases
          /\ onresult(finalTranscript, interim)
    /\ UNCHANGED <<isRecording, isLoading, error, activeTab, listVars, setupVars,
                   storeVars, pending, now, speechVars, mounted>>

\* onend without line 194: the preview outlives the session.
RecognitionEndKeepsInterim ==
    /\ recActive
    /\ recActive' = FALSE
    /\ isRecording' = FALSE
    /\ UNCHANGED <<lectureText, interimTranscript, isLoading, error, activeTab, listVars,
                   setupVars, storeVars, pending, now, hasSpeech, mounted>>

\* Lines 192-195: recognition.onend, after stop() or on the recogniser's own accord.
RecognitionEnd ==
    /\ recActive
    /\ recActive' = FALSE
    /\ isRecording' = FALSE
    /\ interimTranscript' = <<>>
    /\ UNCHANGED <<lectureText, isLoading, error, activeTab, listVars, setupVars,
                   storeVars, pending, now, hasSpeech, mounted>>

-----------------------------------------------------------------------------
(* Generation, lines 216-301 *)

\* Line 301 without its second disjunct.
isGenerateDisabledIgnoresLoading == Blank(lectureText)

\* Line 301.
isGenerateDisabled == Blank(lectureText) \/ isLoading

\* handleGenerate without the trim test of line 217.
handleGenerateNoTrim ==
    IF userId = NULL
    THEN /\ error' = "Lecture text is required."
         /\ UNCHANGED <<isLoading, activeTab, pending>>
    ELSE /\ Len(pending) < MaxInflight
         /\ isLoading' = TRUE
         /\ error' = NULL
         /\ activeTab' = "notes"
         /\ pending' = Append(pending,
                [text |-> lectureText, userId |-> userId, mockMode |-> mockMode,
                 stage |-> "generating", doc |-> <<"none", 0>>])

\* handleGenerate without line 222: a former error stays.
handleGenerateKeepsError ==
    IF Blank(lectureText) \/ userId = NULL
    THEN /\ error' = "Lecture text is required."
         /\ UNCHANGED <<isLoading, activeTab, pending>>
    ELSE /\ Len(pending) < MaxInflight
         /\ isLoading' = TRUE
         /\ error' = error
         /\ activeTab' = "notes"
         /\ pending' = Append(pending,
                [text |-> lectureText, userId |-> userId, mockMode |-> mockMode,
                 stage |-> "generating", doc |-> <<"none", 0>>])

\* Lines 216-256: handleGenerate from its call to its first await. The
\* invocation keeps the lectureText, userId and mockMode of the render whose
\* closure it is (line 294).
handleGenerate ==
    IF Blank(lectureText) \/ userId = NULL
    THEN /\ error' = "Lecture text is required."            \* lines 217-220
         /\ UNCHANGED <<isLoading, activeTab, pending>>
    ELSE /\ Len(pending) < MaxInflight
         /\ isLoading' = TRUE                               \* line 221
         /\ error' = NULL                                   \* line 222
         /\ activeTab' = "notes"                            \* line 223
         /\ pending' = Append(pending,                      \* line 256
                [text |-> lectureText, userId |-> userId, mockMode |-> mockMode,
                 stage |-> "generating", doc |-> <<"none", 0>>])

\* Lines 350-357: the generate button, rendered on the input tab and
\* disabled by line 352.
GenerateClick ==
    /\ Interactive
    /\ activeTab = "input"
    /\ ~isGenerateDisabled
    /\ handleGenerate
    /\ UNCHANGED <<lectureText, isRecording, interimTranscript, listVars, setupVars,
                   storeVars, now, speechVars, mounted>>

\* The catch without line 290: the notes tab stays.
GenerationFailedStaysOnNotes ==
    /\ error' = "An error occurred during generation"
    /\ activeTab' = activeTab
    /\ isLoading' = FALSE

\* The catch without the finally of line 292.
GenerationFailedNoFinally ==
    /\ error' = "An error occurred during generation"
    /\ activeTab' = "input"
    /\ isLoading' = isLoading

\* Lines 287-293: the catch and the finally of a failed invocation.
GenerationFailed ==
    /\ error' = "An error occurred during generation"
    /\ activeTab' = "input"
    /\ isLoading' = FALSE

\* Lines 260-265 reading the buffer of the moment instead of the closure's.
lectureDataCurrentBuffer(p, resp) ==
    [title |-> Title(lectureText),
     summary |-> ParsedSummary(resp),
     flashcards |-> ParsedFlashcards(resp),
     originalText |-> lectureText]

\* Lines 260-265.
lectureData(p, resp) ==
    [title |-> Title(p.text),
     summary |-> ParsedSummary(resp),
     flashcards |-> ParsedFlashcards(resp),
     originalText |-> p.text]

\* Lines 268-272 (id and timestamp "resolved") and 278-281 (timestamp "pending").
NewLecture(id, data, timestamp) ==
    [id |-> id, title |-> data.title, summary |-> data.summary,
     flashcards |-> data.flashcards, timestamp |-> timestamp,
     originalText |-> data.originalText]

\* The fallback branch appending the record instead of prepending it.
AddToMockListAppends(p, resp) ==
    LET newLecture == NewLecture(<<"mock", now>>, lectureData(p, resp), "resolved")
    IN /\ lectures' = lectures \o <<newLecture>>
       /\ selectedLecture' = newLecture
       /\ isLoading' = FALSE
       /\ UNCHANGED <<error, activeTab, storeVars>>

\* The fallback branch without line 273: the record is selected, not listed.
AddToMockListSelectsOnly(p, resp) ==
    LET newLecture == NewLecture(<<"mock", now>>, lectureData(p, resp), "resolved")
    IN /\ lectures' = lectures
       /\ selectedLecture' = newLecture
       /\ isLoading' = FALSE
       /\ UNCHANGED <<error, activeTab, storeVars>>

\* Lines 267-274 and 292: the fallback branch and the finally.
AddToMockList(p, resp) ==
    LET newLecture == NewLecture(<<"mock", now>>, lectureData(p, resp), "resolved")
    IN /\ lectures' = <<newLecture>> \o lectures            \* line 273
       /\ selectedLecture' = newLecture                     \* line 274
       /\ isLoading' = FALSE                                \* line 292
       /\ UNCHANGED <<error, activeTab, storeVars>>

\* Lines 275-284, to the await of line 284: the document is written to the
\* client's view of the collection with its timestamp pending, which the
\* listener, if live, is told of.
AddToStoreStart(k, resp) ==
    LET p == pending[k]
        doc == NewLecture(<<"doc", now>>, lectureData(p, resp), "pending")
    IN /\ collection' = <<doc>> \o collection
       /\ snapDirty' = (snapDirty \/ listening)
       /\ pending' = [pending EXCEPT ![k].stage = "adding", ![k].doc = doc.id]
       /\ UNCHANGED <<error, activeTab, isLoading, listVars>>

\* Lines 256-285: the continuation when generateContent resolves with a response.
GenerateResolved ==
    \E k \in 1..Len(pending), resp \in Responses :
        /\ pending[k].stage = "generating"
        /\ IF ~Parses(resp)
           THEN /\ GenerationFailed                         \* line 258 throws
                /\ pending' = Remove(pending, k)
                /\ UNCHANGED <<listVars, storeVars, now>>
           ELSE /\ now < StartTime + MaxRecords
                /\ now' = now + 1
                /\ IF pending[k].mockMode                   \* line 267
                   THEN /\ AddToMockList(pending[k], resp)
                        /\ pending' = Remove(pending, k)
                   ELSE AddToStoreStart(k, resp)
        /\ UNCHANGED <<lectureText, isRecording, interimTranscript, setupVars,
                       speechVars, mounted>>

\* Line 256 rejects (network, auth, quota): lines 287-293.
GenerateRejected ==
    \E k \in 1..Len(pending) :
        /\ pending[k].stage = "generating"
        /\ GenerationFailed
        /\ pending' = Remove(pending, k)
        /\ UNCHANGED <<lectureText, isRecording, interimTranscript, listVars, setupVars,
                       storeVars, now, speechVars, mounted>>

Resolve(list, id) ==
    [i \in 1..Len(list) |->
        IF list[i].id = id THEN [list[i] EXCEPT !.timestamp = "resolved"] ELSE list[i]]

Without(list, id) ==
    LET keep[i \in 0..Len(list)] ==
            IF i = 0 THEN <<>>
            ELSE IF list[i].id = id THEN keep[i - 1] ELSE Append(keep[i - 1], list[i])
    IN keep[Len(list)]

\* The acknowledged write taken as proof that the store is back: setMockMode(false).
AddAcknowledgedLeavesFallback ==
    \E k \in 1..Len(pending) :
        /\ pending[k].stage = "adding"
        /\ collection' = Resolve(collection, pending[k].doc)
        /\ snapDirty' = (snapDirty \/ listening)
        /\ isLoading' = FALSE
        /\ mockMode' = FALSE
        /\ pending' = Remove(pending, k)
        /\ UNCHANGED <<lectureText, isRecording, interimTranscript, error, activeTab,
                       listVars, userId, config, setupPc, unsubscribe, listening, now,
                       speechVars, mounted>>

\* Line 284 resolves: the write is acknowledged, the store resolves the
\* timestamp, and the finally (line 292) runs.
AddAcknowledged ==
    \E k \in 1..Len(pending) :
        /\ pending[k].stage = "adding"
        /\ collection' = Resolve(collection, pending[k].doc)
        /\ snapDirty' = (snapDirty \/ listening)
        /\ isLoading' = FALSE
        /\ pending' = Remove(pending, k)
        /\ UNCHANGED <<lectureText, isRecording, interimTranscript, error, activeTab,
                       listVars, setupVars, now, speechVars, mounted>>

\* A rejected write that runs the finally alone: no catch (lines 287-291).
AddRejectedSilent ==
    \E k \in 1..Len(pending) :
        /\ pending[k].stage = "adding"
        /\ collection' = Without(collection, pending[k].doc)
        /\ snapDirty' = (snapDirty \/ listening)
        /\ isLoading' = FALSE
        /\ pending' = Remove(pending, k)
        /\ UNCHANGED <<lectureText, isRecording, interimTranscript, error, activeTab,
                       listVars, setupVars, now, speechVars, mounted>>

\* Line 284 rejects: the store drops the unacknowledged document; lines 287-293.
AddRejected ==
    \E k \in 1..Len(pending) :
        /\ pending[k].stage = "adding"
        /\ collection' = Without(collection, pending[k].doc)
        /\ snapDirty' = (snapDirty \/ listening)
        /\ GenerationFailed
        /\ pending' = Remove(pending, k)
        /\ UNCHANGED <<lectureText, isRecording, interimTranscript, listVars, setupVars,
                       now, speechVars, mounted>>

-----------------------------------------------------------------------------
Next ==
    \/ SetupStart
    \/ AuthSignedIn
    \/ AuthFailed
    \/ OnSnapshot
    \/ OnSnapshotError
    \/ ExternalDelete
    \/ Teardown
    \/ \E tab \in Tabs : SetActiveTab(tab)
    \/ \E t \in TypedTexts : ChangeText(t)
    \/ SelectLecture
    \/ ToggleRecording
    \/ RecognitionResult
    \/ RecognitionEnd
    \/ GenerateClick
    \/ GenerateResolved
    \/ GenerateRejected
    \/ AddAcknowledged
    \/ AddRejected

Spec == Init /\ [][Next]_vars

\* The external calls complete: the promise of line 256 and the promise of
\* line 284 are each settled in the end, one way or the other.
SpecLive ==
    /\ Spec
    /\ WF_vars(GenerateResolved \/ GenerateRejected)
    /\ WF_vars(AddAcknowledged \/ AddRejected)

\* handleGenerate called with a blank transcript, which the button of line
\* 352 never does: the case lines 217-220 guard against.
HandleGenerateOnBlank ==
    /\ Interactive
    /\ Blank(lectureText)
    /\ handleGenerate
    /\ UNCHANGED <<lectureText, isRecording, interimTranscript, listVars, setupVars,
                   storeVars, now, speechVars, mounted>>

NextHandler == Next \/ HandleGenerateOnBlank

SpecHandler == Init /\ [][NextHandler]_vars

-----------------------------------------------------------------------------
(* Speech capture on its own: the handlers that read or write the capture   *)
(* state (lectureText, interimTranscript, isRecording, the recogniser),     *)
(* with keyed edits and finalised segments met in every order. The          *)
(* generation and store handlers write none of that state.                  *)

\* The longest buffer a result event may leave.
MaxBuffer == 2
\* What the user keys in during capture, and what the recogniser finalises.
KeyedTexts == {<<>>, <<"a">>}
SpokenSegments == {<<>>, <<"b">>}

\* Lines 178-190: a result event on whatever the buffer holds.
RecognitionResultAny ==
    /\ recActive
    /\ \E finalTranscript \in SpokenSegments, interim \in InterimSegments :
          /\ Len(lectureText) + Len(finalTranscript) <= MaxBuffer
          /\ onresult(finalTranscript, interim)
    /\ UNCHANGED <<isRecording, isLoading, error, activeTab, listVars, setupVars,
                   storeVars, pending, now, speechVars, mounted>>

NextCapture ==
    \/ SetupStart
    \/ AuthSignedIn
    \/ AuthFailed
    \/ Teardown
    \/ \E tab \in Tabs : SetActiveTab(tab)
    \/ \E t \in KeyedTexts : ChangeText(t)
    \/ ToggleRecording
    \/ RecognitionResultAny
    \/ RecognitionEnd

SpecCapture == Init /\ [][NextCapture]_vars

-----------------------------------------------------------------------------
(* Claims *)

\* C1: a snapshot that still contains the selected record's id leaves a
\* record of that id selected, wherever it stands in the new list.
C1_SelectionPreserved ==
    [][(OnSnapshot /\ mounted /\ selectedLecture # NoLecture
                   /\ selectedLecture.id \in Ids(lectures'))
        => (selectedLecture' # NoLecture /\ selectedLecture'.id = selectedLecture.id)]_vars

\* The selected record stands second in a delivered remote list.
C1_Witness ==
    /\ mounted /\ ~mockMode /\ listening /\ ~snapDirty
    /\ Len(lectures) = 2
    /\ selectedLecture # NoLecture
    /\ selectedLecture.id = lectures[2].id
    /\ lectures[1].id[2] >= StartTime

\* C2: a snapshot that lacks the selected record's id, or that arrives when
\* nothing is selected, selects its first record, or none when it is empty.
C2_SelectionFallback ==
    [][(OnSnapshot /\ mounted
            /\ (selectedLecture = NoLecture \/ selectedLecture.id \notin Ids(lectures')))
        => selectedLecture' = (IF Len(lectures') > 0 THEN lectures'[1] ELSE NoLecture)]_vars

\* A delivered remote list whose first record is selected, the stored
\* document having left it.
C2_Witness ==
    /\ mounted /\ ~mockMode /\ listening /\ ~snapDirty
    /\ Len(lectures) = 1
    /\ selectedLecture = lectures[1]
    /\ lectures[1].id # StoredDoc.id

\* C3: the selected record is none or has the id of a record of the list;
\* it is none when the list is empty.
C3_SelectedInList ==
    /\ selectedLecture # NoLecture => selectedLecture.id \in Ids(lectures)
    /\ lectures = <<>> => selectedLecture = NoLecture

\* A selection made by hand of the older of two records.
C3_Witness ==
    /\ mounted /\ Len(lectures) = 2
    /\ selectedLecture = lectures[2]
    /\ activeTab = "notes"
    /\ mockMode

\* C4: at most one generation request is outstanding, and isLoading is
\* true while it is.
C4_OneRequest ==
    /\ Len(pending) <= 1
    /\ pending # <<>> => isLoading

\* A request is in flight while the user is back on the input tab with a
\* non-blank transcript and capture running.
C4_Witness ==
    /\ Len(pending) = 1
    /\ activeTab = "input"
    /\ ~Blank(lectureText)
    /\ isRecording

\* C5: handleGenerate on a blank transcript starts no request, sets error,
\* and leaves isLoading and activeTab as they were.
C5_EmptyInput ==
    [][(HandleGenerateOnBlank /\ Blank(lectureText))
        => (/\ error' # NULL
            /\ pending' = pending
            /\ isLoading' = isLoading
            /\ activeTab' = activeTab)]_vars

\* The empty-input message in a session that had its identity from the
\* start: only a blank transcript can have raised it.
C5_Witness ==
    /\ config = "absent"
    /\ error = "Lecture text is required."
    /\ Blank(lectureText)
    /\ pending = <<>>

\* C6: a rejected generation request ends with isLoading false, the input
\* tab active, error set and the transcript buffer untouched; neither the
\* start of the request nor its rejection writes the buffer.
C6_Rejected ==
    [][/\ GenerateRejected
          => (/\ ~isLoading'
              /\ activeTab' = "input"
              /\ error' # NULL
              /\ lectureText' = lectureText)
       /\ GenerateClick => lectureText' = lectureText]_vars

\* After a failure: idle, on the input tab, with the error and the
\* transcript that was sent.
C6_Witness ==
    /\ pending = <<>> /\ ~isLoading
    /\ activeTab = "input"
    /\ error = "An error occurred during generation"
    /\ lectureText = LongText

\* C7: a successful generation makes the new record the selected one: at
\* once in fallback mode, and in remote mode when the snapshot that first
\* holds the record created in this session is delivered.
C7_NewRecordSelected ==
    [][/\ (GenerateResolved /\ Len(lectures') > Len(lectures))
          => selectedLecture' = lectures'[1]
       /\ (OnSnapshot /\ mounted
              /\ \E i \in 1..Len(lectures') :
                    /\ lectures'[i].id \notin Ids(lectures)
                    /\ lectures'[i].id[2] >= StartTime)
          => (/\ selectedLecture' # NoLecture
              /\ selectedLecture'.id \notin Ids(lectures)
              /\ selectedLecture'.id[2] >= StartTime)]_vars

C9_FallbackSeeded ==
    [][(~mockMode /\ mockMode')
        => (/\ lectures' = MOCK_LECTURES
            /\ Len(lectures') = 1
            /\ selectedLecture' = MOCK_LECTURES[1])]_vars

\* Fallback entered from a live subscription that had delivered the stored
\* document: the sample has replaced it.
C9_Witness ==
    /\ mockMode
    /\ unsubscribe = "listener"
    /\ collection # <<>>
    /\ lectures = MOCK_LECTURES
    /\ selectedLecture = MOCK_LECTURES[1]
    /\ pending # <<>>

\* C10: while the session lasts, fallback mode once entered is never left.
C10_NoReverseSwitch ==
    [][(mockMode /\ mounted') => mockMode']_vars

\* A remote write acknowledged after the session fell back: still fallback.
C10_Witness ==
    /\ mockMode
    /\ mounted
    /\ pending = <<>>
    /\ \E i \in 1..Len(collection) :
          /\ collection[i].id[2] >= StartTime
          /\ collection[i].timestamp = "resolved"

\* C11: a response that parses but is not of the required shape adds no
\* record: every record of the list and of the collection has flashcards
\* that are an array whose entries all have a term.
C11_ShapeEnforced ==
    \A list \in {lectures, collection} :
        \A i \in 1..Len(list) :
            /\ list[i].flashcards # NoLecture
            /\ \A j \in 1..Len(list[i].flashcards.items) :
                  "term" \in DOMAIN list[i].flashcards.items[j]

\* C12: a rejected store write ends as a failed generation does: error
\* set, the input tab active, isLoading false, the list and the selection
\* as they were before the rejection, and the document gone from the store.
C12_StoreWriteFailure ==
    [][AddRejected
        => (/\ error' # NULL
            /\ activeTab' = "input"
            /\ ~isLoading'
            /\ lectures' = lectures
            /\ selectedLecture' = selectedLecture
            /\ Len(collection') < Len(collection)
            /\ Ids(collection') \subseteq Ids(collection))]_vars

\* After a rejected write whose pending document a snapshot had shown: the
\* failure is reported while the list still awaits the snapshot without it.
C12_Witness ==
    /\ mounted /\ ~mockMode /\ listening
    /\ pending = <<>> /\ ~isLoading
    /\ activeTab = "input"
    /\ error = "An error occurred during generation"
    /\ \E i \in 1..Len(lectures) :
          /\ lectures[i].timestamp = "pending"
          /\ lectures[i].id \notin Ids(collection)

\* C13: the step that starts a request clears error, makes the notes tab
\* active and sets isLoading, and writes neither the transcript, the list
\* nor the selection.
C13_GenerateStart ==
    [][(GenerateClick /\ pending' # pending)
        => (/\ error' = NULL
            /\ activeTab' = "notes"
            /\ isLoading'
            /\ lectureText' = lectureText
            /\ lectures' = lectures
            /\ selectedLecture' = selectedLecture)]_vars

\* A request just started from a session that had a record selected: the
\* notes tab shows before the response exists.
C13_Witness ==
    /\ Len(pending) = 1
    /\ pending[1].stage = "generating"
    /\ pending[1].text = lectureText
    /\ isLoading
    /\ error = NULL
    /\ activeTab = "notes"
    /\ selectedLecture # NoLecture
    /\ now = StartTime

\* C14: a capture toggle made while the session is not recording empties
\* the transcript buffer and the interim preview and sets isRecording.
C14_StartClears ==
    [][(ToggleRecording /\ ~isRecording)
        => (/\ lectureText' = <<>>
            /\ interimTranscript' = <<>>
            /\ isRecording')]_vars

\* C15: the stop request and the end event leave the buffer as it is, a
\* result event extends it by exactly its one finalised segment, and the
\* interim preview is empty whenever the recogniser has ended, in whatever
\* order stop request, result events and end event come.
C15_StopKeepsFinal ==
    [][/\ (ToggleRecording /\ isRecording)
          => (lectureText' = lectureText /\ ~isRecording')
       /\ RecognitionEnd
          => (lectureText' = lectureText /\ interimTranscript' = <<>>)
       /\ RecognitionResultAny
          => (\E seg \in SpokenSegments : lectureText' = lectureText \o seg)
       /\ ~recActive' => interimTranscript' = <<>>]_vars

\* Stop requested in mid-utterance: the session no longer counts as
\* recording, a finalised segment is in the buffer, a hypothesis is still
\* shown, and the recogniser has yet to end.
C15_Witness ==
    /\ mounted /\ hasSpeech
    /\ ~isRecording /\ recActive
    /\ interimTranscript # <<>>
    /\ lectureText = <<"b">>

\* C16: without the speech API a capture toggle changes none of the
\* transcript buffer, the interim preview and isRecording.
C16_InertWithoutApi ==
    [][(ToggleRecording /\ ~hasSpeech)
        => (/\ lectureText' = lectureText
            /\ interimTranscript' = interimTranscript
            /\ isRecording' = isRecording)]_vars

\* C17: a result event leaves the buffer it finds, keyed edits included,
\* as the head of the new buffer, and adds one finalised segment after it.
C17_AppendsToCurrent ==
    [][RecognitionResultAny
        => (/\ Len(lectureText') >= Len(lectureText)
            /\ SubSeq(lectureText', 1, Len(lectureText)) = lectureText
            /\ SubSeq(lectureText', Len(lectureText) + 1, Len(lectureText'))
                  \in SpokenSegments)]_vars

\* A buffer keyed in during capture with a finalised segment after it.
C17_Witness ==
    /\ mounted /\ hasSpeech
    /\ recActive /\ isRecording
    /\ lectureText = <<"a", "b">>

\* C18: once the component is unmounted no store subscription is live.
C18_NoListenerAfterTeardown == ~mounted => ~listening

\* C20: a click on Generate with a non-blank transcript never raises the
\* empty-input error and always starts a request.
C20_NonBlankStarts ==
    [][(GenerateClick /\ ~Blank(lectureText))
        => (/\ error' # "Lecture text is required."
            /\ Len(pending') = Len(pending) + 1
            /\ isLoading')]_vars

\* C19: whenever isLoading is true it becomes false again, whichever way
\* the request and the store write end.
C19_LoadingEnds == isLoading ~> ~isLoading

\* A generation that went through the remote store and is over: the
\* document acknowledged, the session idle on the notes tab.
C19_Witness ==
    /\ mounted /\ ~mockMode
    /\ ~isLoading /\ pending = <<>>
    /\ error = NULL
    /\ activeTab = "notes"
    /\ \E i \in 1..Len(collection) :
          /\ collection[i].id[2] >= StartTime
          /\ collection[i].timestamp = "resolved"

\* C21: a parsed response that arrives while the session is in fallback
\* mode puts its record first in the in-memory list and selects it.
C21_ActiveBackendWrite ==
    [][(GenerateResolved /\ now' # now /\ mockMode)
        => (/\ Len(lectures') = Len(lectures) + 1
            /\ lectures'[1].id = <<"mock", now>>
            /\ selectedLecture' = lectures'[1])]_vars

\* C22: the invocation keeps the transcript of the click as the text it
\* sends, and the record made from a parsed response has that text as
\* originalText and its first 40 characters, then "...", as title,
\* whatever the buffer holds by then.
C22_RecordKeepsSentText ==
    [][/\ (GenerateClick /\ pending' # pending)
          => pending'[Len(pending')].text = lectureText
       /\ (GenerateResolved /\ now' # now)
          => LET rec == IF Len(lectures') > Len(lectures)
                        THEN lectures'[1] ELSE collection'[1]
             IN \E k \in 1..Len(pending) :
                   /\ pending[k].stage = "generating"
                   /\ rec.originalText = pending[k].text
                   /\ Len(rec.title) = Min(Len(pending[k].text), 40) + 3
                   /\ \A i \in 1..Len(rec.title) :
                         rec.title[i] = IF i <= Len(rec.title) - 3
                                        THEN pending[k].text[i] ELSE "."]_vars

\* A record made while capture, started after the click, had emptied the
\* buffer: the write is still unacknowledged and the record holds the long
\* transcript that was sent, under a title of 43 characters.
C22_Witness ==
    /\ mounted /\ isRecording
    /\ lectureText = <<>>
    /\ Len(pending) = 1
    /\ pending[1].stage = "adding"
    /\ pending[1].text = LongText
    /\ collection[1].id = pending[1].doc
    /\ collection[1].originalText = LongText
    /\ Len(collection[1].title) = 43

====
